---- MODULE Spec2Model ----
(***************************************************************************)
(* Model of dbterd's drawdb target (dbterd/adapters/targets/drawdb.py).    *)
(*                                                                         *)
(* Python lists are modelled as functions over 0..n-1, so that every index *)
(* of the model is the index of the source (tables[idx - column_size],     *)
(* table_map[0], table_map[1]).  Python dicts are functions whose DOMAIN   *)
(* is the key set; a record is the dict with its field names as keys.      *)
(* Python's None is the integer None == -1 where an id or a coordinate is  *)
(* expected (ids and coordinates of the program are never negative).       *)
(***************************************************************************)
EXTENDS Integers, Sequences, FiniteSets, TLC

VARIABLES
    tables,            \* what algo_module.parse returned: the ordered tables
    relationships,     \* what algo_module.parse returned: the relationships
    generated_at,      \* manifest.metadata.generated_at
    output_file_name,  \* kwargs.get("output_file_name"); "" when absent
    pc,                \* "idle" between calls, "layout" inside get_graphic_tables
    idx,               \* loop index of get_graphic_tables
    graphic_tables,    \* the dict get_graphic_tables builds
    results            \* outcome of every finished call of run, oldest first

vars == <<tables, relationships, generated_at, output_file_name,
          pc, idx, graphic_tables, results>>

inputs == <<tables, relationships, generated_at, output_file_name>>

-----------------------------------------------------------------------------
(* Bounds of the model *)

MaxTables == 9      \* longest table list of the layout inputs
MaxRelTables == 2   \* longest table list of the relationship inputs
MaxRels == 1        \* longest relationship list
MaxCalls == 2       \* calls of run on the same input

ColCounts == {0, 2} \* column counts of the tables of the layout inputs

-----------------------------------------------------------------------------
(* Python values *)

None == -1

EmptyDict == <<>>

EmptyList == <<>>

Len0(l) == Cardinality(DOMAIN l)

\* d.get(k, default)
DictGet(d, k, default) == IF k \in DOMAIN d THEN d[k] ELSE default

\* d[k] = v
DictSet(d, k, v) == [n \in (DOMAIN d) \cup {k} |-> IF n = k THEN v ELSE d[n]]

Max(S) == CHOOSE m \in S : \A n \in S : n <= m

-----------------------------------------------------------------------------
(* The ingested model: Table, Column, Relationship *)

Column(n, t) == [name |-> n, data_type |-> t, description |-> "col " \o n]

Table(n, cols) == [name |-> n, description |-> "table " \o n, columns |-> cols]

Ref(tm, cm, ty) == [table_map |-> tm, column_map |-> cm, type |-> ty]

Pair(a, b) == (0 :> a @@ 1 :> b)

\* the first n columns c0, c1, ...
Cols(n) == [j \in 0..(n - 1) |-> Column("c" \o ToString(j), "text")]

\* the absent type (x.type is None): a value no type code equals
NoType == "<None>"

TypeCodes == {"01", "11", "0n", "1n", "nn", "n1", "", "1N", NoType}

-----------------------------------------------------------------------------
(* get_rel_symbol *)

get_rel_symbol_0n_as_default(relationship_type) ==
    IF relationship_type \in {"01", "11"} THEN "One to one"
    ELSE IF relationship_type \in {"1n"} THEN "One to many"
    ELSE IF relationship_type \in {"nn"} THEN "Many to many"
    ELSE "Many to one"

get_rel_symbol(relationship_type) ==
    IF relationship_type \in {"01", "11"} THEN "One to one"
    ELSE IF relationship_type \in {"0n", "1n"} THEN "One to many"
    ELSE IF relationship_type \in {"nn"} THEN "Many to many"
    ELSE "Many to one"

-----------------------------------------------------------------------------
(* get_y *)

column_size == 4

prev_table_name_current(tbls, i) == tbls[i].name

\* tables[idx - column_size].name
prev_table_name(tbls, i) == tbls[i - column_size].name

\* graphic_tables[prev_table_name] raises KeyError
get_y_KeyError(tbls, i, gt) ==
    /\ i >= column_size
    /\ prev_table_name(tbls, i) \notin DOMAIN gt

get_y_forgets_prev_y(tbls, i, gt) ==
    IF i < column_size THEN 0
    ELSE (50 * (Len0(tbls[i - column_size].columns) + 1))

get_y_no_title_row(tbls, i, gt) ==
    IF i < column_size THEN 0
    ELSE (50 * Len0(tbls[i - column_size].columns))
         + DictGet(gt[prev_table_name(tbls, i)], "y", 0)

get_y(tbls, i, gt) ==
    IF i < column_size THEN 0
    ELSE LET col_len == Len0(tbls[i - column_size].columns) + 1
             y == (50 * col_len) * (IF i < column_size THEN 0 ELSE 1)
         IN  IF i - column_size >= 0
             THEN y + DictGet(gt[prev_table_name(tbls, i)], "y", 0)
             ELSE y

-----------------------------------------------------------------------------
(* get_graphic_tables: one iteration of its loop *)

\* idx_fields after the inner loop: a later column of the same name overwrites
idx_fields(columns) ==
    [n \in {columns[j].name : j \in DOMAIN columns} |->
        [id |-> Max({j \in DOMAIN columns : columns[j].name = n})]]

graphic_table(tbls, i, gt) ==
    [id |-> i,
     x |-> 500 * (i % 4),
     y |-> get_y(tbls, i, gt),
     fields |-> idx_fields(tbls[i].columns)]

-----------------------------------------------------------------------------
(* parse: the document *)

title == IF output_file_name = "" THEN "Generated by dbterd" ELSE output_file_name

date_of_call == "call " \o ToString(Len(results))

date == generated_at

field_descriptors(columns) ==
    [idc \in DOMAIN columns |->
        [id |-> idc,
         name |-> columns[idc].name,
         type |-> columns[idc].data_type,
         default |-> "",
         check |-> "",
         primary |-> FALSE,
         unique |-> FALSE,
         notNull |-> FALSE,
         increment |-> FALSE,
         comment |-> columns[idc].description]]

table_descriptor_id_from_lookup(i, t, gt) ==
    [id |-> DictGet(DictGet(gt, t.name, EmptyDict), "id", None),
     name |-> t.name,
     x |-> DictGet(DictGet(gt, t.name, EmptyDict), "x", None),
     y |-> DictGet(DictGet(gt, t.name, EmptyDict), "y", None),
     comment |-> t.description,
     indices |-> EmptyList,
     color |-> "#175e7a",
     fields |-> field_descriptors(t.columns)]

table_descriptor(i, t, gt) ==
    [id |-> i,
     name |-> t.name,
     x |-> DictGet(DictGet(gt, t.name, EmptyDict), "x", None),
     y |-> DictGet(DictGet(gt, t.name, EmptyDict), "y", None),
     comment |-> t.description,
     indices |-> EmptyList,
     color |-> "#175e7a",
     fields |-> field_descriptors(t.columns)]

rel_name_to_first(r) ==
    "fk__" \o r.table_map[0] \o "_" \o r.table_map[1] \o "__" \o r.column_map[1]

\* f"fk__{x.table_map[1]}_{x.table_map[0]}__{x.column_map[1]}"
rel_name(r) ==
    "fk__" \o r.table_map[1] \o "_" \o r.table_map[0] \o "__" \o r.column_map[1]

\* graphic_tables.get(name, {}).get("fields") is None, and None.get raises
fields_AttributeError(gt, name) ==
    "fields" \notin DOMAIN DictGet(gt, name, EmptyDict)

\* graphic_tables.get(tname, {}).get("fields").get(cname, {}).get("id")
field_id(gt, tname, cname) ==
    DictGet(DictGet(DictGet(gt, tname, EmptyDict)["fields"], cname, EmptyDict),
            "id", None)

rel_AttributeError_on_missing_column(r, gt) ==
    \/ fields_AttributeError(gt, r.table_map[1])
    \/ fields_AttributeError(gt, r.table_map[0])
    \/ r.column_map[1] \notin DOMAIN DictGet(gt, r.table_map[1], EmptyDict)["fields"]
    \/ r.column_map[0] \notin DOMAIN DictGet(gt, r.table_map[0], EmptyDict)["fields"]

rel_AttributeError(r, gt) ==
    \/ fields_AttributeError(gt, r.table_map[1])
    \/ fields_AttributeError(gt, r.table_map[0])

rel_descriptor_ends_swapped(i, r, gt) ==
    [id |-> i,
     name |-> rel_name(r),
     cardinality |-> get_rel_symbol(r.type),
     startTableId |-> DictGet(DictGet(gt, r.table_map[0], EmptyDict), "id", None),
     endTableId |-> DictGet(DictGet(gt, r.table_map[1], EmptyDict), "id", None),
     startFieldId |-> field_id(gt, r.table_map[0], r.column_map[0]),
     endFieldId |-> field_id(gt, r.table_map[1], r.column_map[1]),
     updateConstraint |-> "No action",
     deleteConstraint |-> "No action"]

rel_descriptor(i, r, gt) ==
    [id |-> i,
     name |-> rel_name(r),
     cardinality |-> get_rel_symbol(r.type),
     startTableId |-> DictGet(DictGet(gt, r.table_map[1], EmptyDict), "id", None),
     endTableId |-> DictGet(DictGet(gt, r.table_map[0], EmptyDict), "id", None),
     startFieldId |-> field_id(gt, r.table_map[1], r.column_map[1]),
     endFieldId |-> field_id(gt, r.table_map[0], r.column_map[0]),
     updateConstraint |-> "No action",
     deleteConstraint |-> "No action"]

drawdb(gt) ==
    [author |-> "dbterd",
     title |-> title,
     date |-> date,
     tables |-> [i \in DOMAIN tables |-> table_descriptor(i, tables[i], gt)],
     relationships |->
        [i \in DOMAIN relationships |-> rel_descriptor(i, relationships[i], gt)],
     notes |-> EmptyList,
     subjectAreas |-> EmptyList,
     database |-> "generic",
     types |-> EmptyList]

\* run: kwargs.get("output_file_name") or "output.ddb"
file_name == IF output_file_name = "" THEN "output.ddb" ELSE output_file_name

Raised(exc) == [status |-> exc, file_name |-> "", doc |-> EmptyDict]

Returned(doc) == [status |-> "ok", file_name |-> file_name, doc |-> doc]

-----------------------------------------------------------------------------
(* Actions *)

\* run -> parse -> get_graphic_tables: graphic_tables = dict()
Call ==
    /\ pc = "idle"
    /\ Len(results) < MaxCalls
    /\ pc' = "layout"
    /\ idx' = 0
    /\ graphic_tables' = EmptyDict
    /\ UNCHANGED <<inputs, results>>

\* one iteration of "for idx, x in enumerate(tables)" of get_graphic_tables
LayoutStep ==
    /\ pc = "layout"
    /\ idx < Len0(tables)
    /\ IF get_y_KeyError(tables, idx, graphic_tables)
       THEN /\ pc' = "idle"
            /\ results' = Append(results, Raised("KeyError"))
            /\ UNCHANGED <<idx, graphic_tables>>
       ELSE /\ graphic_tables' =
                  DictSet(graphic_tables, tables[idx].name,
                          graphic_table(tables, idx, graphic_tables))
            /\ idx' = idx + 1
            /\ UNCHANGED <<pc, results>>
    /\ UNCHANGED inputs

\* get_graphic_tables returns; parse builds the document and run returns
Assemble ==
    /\ pc = "layout"
    /\ idx = Len0(tables)
    /\ pc' = "idle"
    /\ results' =
          Append(results,
                 IF \E i \in DOMAIN relationships :
                        rel_AttributeError(relationships[i], graphic_tables)
                 THEN Raised("AttributeError")
                 ELSE Returned(drawdb(graphic_tables)))
    /\ UNCHANGED <<inputs, idx, graphic_tables>>

Next == Call \/ LayoutStep \/ Assemble

-----------------------------------------------------------------------------
(* Inputs *)

List0(S, n) == [0..(n - 1) -> S]

\* tables with the unique names t0, t1, ... and any column counts
UniqueTables ==
    UNION {{[i \in 0..(n - 1) |-> Table("t" \o ToString(i), Cols(c[i]))] :
                c \in List0(ColCounts, n)} : n \in 0..MaxTables}

DupNames == {"orders", "customers"}

\* tables whose names repeat
DupTables ==
    UNION {{[i \in 0..(n - 1) |-> Table(nm[i], Cols(1))] :
                nm \in List0(DupNames, n)} : n \in 0..MaxTables}

\* the layout example: column counts 2, 3, 1, 4 and a fifth table
ExampleCounts == (0 :> 2 @@ 1 :> 3 @@ 2 :> 1 @@ 3 :> 4 @@ 4 :> 1)

ExampleTables ==
    [i \in DOMAIN ExampleCounts |-> Table("t" \o ToString(i), Cols(ExampleCounts[i]))]

orders == Table("orders", (0 :> Column("id", "int") @@ 1 :> Column("customer_id", "int")))

customers == Table("customers", (0 :> Column("id", "int")))

TablePool == {orders, customers}

TableNames == {"orders", "customers", "ghost"}

ColumnNames == {"id", "customer_id"}

RelPool ==
    {Ref(Pair(t0, t1), Pair(c0, c1), "n1") :
        t0 \in TableNames, t1 \in TableNames, c0 \in ColumnNames, c1 \in ColumnNames}
    \cup {Ref(Pair("orders", "customers"), Pair("id", "customer_id"), ty) :
            ty \in TypeCodes}

InitCall ==
    /\ pc = "idle"
    /\ idx = 0
    /\ graphic_tables = EmptyDict
    /\ results = <<>>

InitLayout ==
    /\ tables \in UniqueTables \cup DupTables \cup {ExampleTables}
    /\ relationships = EmptyList
    /\ generated_at = "2024-01-01"
    /\ output_file_name \in {"", "erd.ddb"}
    /\ InitCall

Init ==
    /\ tables \in UNION {List0(TablePool, n) : n \in 0..MaxRelTables}
    /\ relationships \in UNION {List0(RelPool, n) : n \in 0..MaxRels}
    /\ generated_at = "2024-01-01"
    /\ output_file_name \in {"", "erd.ddb"}
    /\ InitCall

Spec == Init /\ [][Next]_vars

SpecLayout == InitLayout /\ [][Next]_vars

-----------------------------------------------------------------------------
(* Properties *)

Ok(k) == results[k].status = "ok"

NamesOf(tbls) == {tbls[i].name : i \in DOMAIN tbls}

ColumnNamesOf(tbls, tname) ==
    UNION {{tbls[i].columns[j].name : j \in DOMAIN tbls[i].columns} :
              i \in {i \in DOMAIN tbls : tbls[i].name = tname}}

UniqueNames(tbls) ==
    \A i, j \in DOMAIN tbls : i # j => tbls[i].name # tbls[j].name

UniqueColumns(tbls) ==
    \A i \in DOMAIN tbls : \A j, k \in DOMAIN tbls[i].columns :
        j # k => tbls[i].columns[j].name # tbls[i].columns[k].name

\* side 1 is the start ("from") side, side 0 the end ("to") side
TableIdOf(d, s) == IF s = 1 THEN d.startTableId ELSE d.endTableId

FieldIdOf(d, s) == IF s = 1 THEN d.startFieldId ELSE d.endFieldId

\* C1: whenever a relationship names a table absent from the ingested tables,
\* the call returns a document (no exception) in which that endpoint's table
\* id and field id are null.
CE_C1 ==
    \A k \in DOMAIN results :
        \A i \in DOMAIN relationships : \A s \in {0, 1} :
            relationships[i].table_map[s] \notin NamesOf(tables) =>
                /\ Ok(k)
                /\ TableIdOf(results[k].doc.relationships[i], s) = None
                /\ FieldIdOf(results[k].doc.relationships[i], s) = None

\* C2 as stated: every relationship descriptor is named
\* fk__{table_map[0]}_{table_map[1]}__{column_map[1]}.
Orig_C2 ==
    \A k \in DOMAIN results : Ok(k) =>
        \A i \in DOMAIN relationships :
            results[k].doc.relationships[i].name =
                "fk__" \o relationships[i].table_map[0] \o "_"
                       \o relationships[i].table_map[1] \o "__"
                       \o relationships[i].column_map[1]

\* C2 amended: every relationship descriptor is named
\* fk__{table_map[1]}_{table_map[0]}__{column_map[1]}, so that
\* table_map = [orders, customers], column_map = [id, customer_id] gives
\* fk__customers_orders__customer_id.
Thm_C2 ==
    \A k \in DOMAIN results : Ok(k) =>
        \A i \in DOMAIN relationships :
            /\ results[k].doc.relationships[i].name =
                   "fk__" \o relationships[i].table_map[1] \o "_"
                          \o relationships[i].table_map[0] \o "__"
                          \o relationships[i].column_map[1]
            /\ ( /\ relationships[i].table_map = Pair("orders", "customers")
                 /\ relationships[i].column_map = Pair("id", "customer_id") )
               => results[k].doc.relationships[i].name
                      = "fk__customers_orders__customer_id"

Wit_C2 ==
    \E k \in DOMAIN results :
        /\ Ok(k)
        /\ \E i \in DOMAIN relationships :
            /\ relationships[i].table_map = Pair("orders", "customers")
            /\ relationships[i].column_map = Pair("id", "customer_id")
            /\ results[k].doc.relationships[i].name
                   = "fk__customers_orders__customer_id"

Thm_C4 ==
    \A k \in DOMAIN results :
        (Ok(k) /\ UniqueNames(tables) /\ UniqueColumns(tables)) =>
            \A i \in DOMAIN relationships : \A s \in {0, 1} :
                LET r == relationships[i]
                    d == results[k].doc.relationships[i]
                    out == results[k].doc.tables
                IN  ( /\ \A e \in {0, 1} : r.table_map[e] \in NamesOf(tables)
                      /\ \A e \in {0, 1} :
                            r.column_map[e] \in ColumnNamesOf(tables, r.table_map[e]) )
                    => /\ TableIdOf(d, s) \in DOMAIN out
                       /\ out[TableIdOf(d, s)].id = TableIdOf(d, s)
                       /\ out[TableIdOf(d, s)].name = r.table_map[s]
                       /\ FieldIdOf(d, s) \in DOMAIN out[TableIdOf(d, s)].fields
                       /\ out[TableIdOf(d, s)].fields[FieldIdOf(d, s)].id = FieldIdOf(d, s)
                       /\ out[TableIdOf(d, s)].fields[FieldIdOf(d, s)].name = r.column_map[s]

Wit_C4 ==
    \E k \in DOMAIN results :
        /\ Ok(k)
        /\ tables = (0 :> orders @@ 1 :> customers)
        /\ \E i \in DOMAIN relationships :
            /\ relationships[i].table_map = Pair("customers", "orders")
            /\ relationships[i].column_map = Pair("id", "customer_id")
            /\ results[k].doc.relationships[i].startTableId = 0
            /\ results[k].doc.relationships[i].startFieldId = 1
            /\ results[k].doc.relationships[i].endTableId = 1
            /\ results[k].doc.relationships[i].endFieldId = 0

\* C5: for every non-empty table sequence the table descriptors have the
\* length and the order (by name) of the ingested tables, and each
\* descriptor's id is its position.
Thm_C5 ==
    \A k \in DOMAIN results : Len0(tables) > 0 =>
        /\ Ok(k)
        /\ DOMAIN results[k].doc.tables = 0..(Len0(tables) - 1)
        /\ \A i \in DOMAIN tables :
            /\ results[k].doc.tables[i].name = tables[i].name
            /\ results[k].doc.tables[i].id = i

Wit_C5 ==
    \E k \in DOMAIN results :
        /\ Ok(k)
        /\ Len0(tables) >= 5
        /\ tables[4].name = tables[0].name
        /\ results[k].doc.tables[0].id = 0
        /\ results[k].doc.tables[4].id = 4

\* C6: a call fails only when some relationship names an absent table; when
\* it returns, a relationship whose two tables are present has both table ids
\* resolved, and a null field id on each side whose column is absent from
\* that table.
Thm_C6 ==
    \A k \in DOMAIN results :
        /\ ~Ok(k) => \E i \in DOMAIN relationships : \E s \in {0, 1} :
                        relationships[i].table_map[s] \notin NamesOf(tables)
        /\ Ok(k) =>
            \A i \in DOMAIN relationships :
                LET r == relationships[i]
                    d == results[k].doc.relationships[i]
                    out == results[k].doc.tables
                IN  (\A e \in {0, 1} : r.table_map[e] \in NamesOf(tables)) =>
                        \A s \in {0, 1} :
                            /\ TableIdOf(d, s) \in DOMAIN out
                            /\ out[TableIdOf(d, s)].name = r.table_map[s]
                            /\ r.column_map[s] \notin ColumnNamesOf(tables, r.table_map[s])
                               => FieldIdOf(d, s) = None

Wit_C6 ==
    \E k \in DOMAIN results :
        /\ Ok(k)
        /\ tables = (0 :> orders @@ 1 :> customers)
        /\ \E i \in DOMAIN relationships :
            /\ relationships[i].table_map = Pair("orders", "customers")
            /\ relationships[i].column_map = Pair("id", "customer_id")
            /\ results[k].doc.relationships[i].startTableId = 1
            /\ results[k].doc.relationships[i].startFieldId = None
            /\ results[k].doc.relationships[i].endTableId = 0
            /\ results[k].doc.relationships[i].endFieldId = 0

\* the label the specification gives each listed type code
Labels ==
    ("01" :> "One to one" @@ "11" :> "One to one" @@ "0n" :> "One to many"
     @@ "1n" :> "One to many" @@ "nn" :> "Many to many")

\* C7: 01 and 11 are "One to one", 0n and 1n "One to many", nn "Many to
\* many", every other type (the empty and the absent one included) "Many to
\* one", and each relationship descriptor's cardinality is the label of its
\* relationship's type.
Thm_C7 ==
    \A k \in DOMAIN results : Ok(k) =>
        \A i \in DOMAIN relationships :
            results[k].doc.relationships[i].cardinality =
                IF relationships[i].type \in DOMAIN Labels
                THEN Labels[relationships[i].type]
                ELSE "Many to one"

Wit_C7 ==
    \E k \in DOMAIN results :
        /\ Ok(k)
        /\ \E i \in DOMAIN relationships :
            /\ relationships[i].type = NoType
            /\ results[k].doc.relationships[i].cardinality = "Many to one"

Thm_C9 ==
    /\ (pc = "layout" /\ idx >= 4 /\ idx < Len0(tables)) =>
        /\ tables[idx - 4].name \in DOMAIN graphic_tables
        /\ graphic_tables[tables[idx - 4].name].id \in (idx - 4)..(idx - 1)
    /\ \A k \in DOMAIN results : results[k].status # "KeyError"

Wit_C9 ==
    /\ pc = "layout"
    /\ idx = 4
    /\ idx < Len0(tables)
    /\ tables[1].name = tables[0].name
    /\ graphic_tables[tables[0].name].id > 0

====
